---- MODULE Spec2Model ----
(***************************************************************************)
(* Paddock Pal: the F1 regulations assistant (Streamlit/paddockpal1.py),   *)
(* the history page (Streamlit/informationpage.py) and the page router     *)
(* (Streamlit/landing.py).                                                 *)
(*                                                                         *)
(* Strings whose content matters (metadata texts, keywords, the context)   *)
(* are sequences of one-character strings; a match is a record             *)
(*   [id, score, metadata], metadata a record that may lack "text".        *)
(* The hosted services (OpenAI, Pinecone, S3) are the environment: every   *)
(* call either fails (raises) or answers, chosen nondeterministically.     *)
(***************************************************************************)
EXTENDS Integers, Sequences, FiniteSets, TLC

VARIABLES
    env,        \* names of the environment variables that are set and non-empty
    remote,     \* index names the Pinecone project lists
    corpus,     \* corpus[i]: number of vectors stored in index i
    pc,         \* position of the process
    crash,      \* the exception that ended the process, "none" while it lives
    provLog,    \* one record per ensure_index_exists call, oldest first
    page,       \* st.session_state['current_page']
    rendered,   \* TRUE once run() has rendered a page
    histCache,  \* st.cache_data entry of load_history_content("f1wikipedia")
    shown,      \* what the page rendered last shows
    query,      \* the question being processed
    embedding,  \* query_embedding of fetch_relevant_documents
    asked,      \* asked[j]: top_k of the j-th index query of this run
    perIndex,   \* perIndex[j]: what query_pinecone returned for the j-th index
    all_results, \* all_results of fetch_relevant_documents
    results,    \* the list fetch_relevant_documents returned
    context,    \* the string get_combined_context returned
    answer,     \* the string generate_answer_with_openai returned
    chatCalls,  \* ChatCompletion.create calls made for this question
    qpResp,     \* query_pinecone alone: the matches the index answered with
    qpKeywords, \* query_pinecone alone: its keywords argument
    qpTopK,     \* query_pinecone alone: its top_k argument
    qpOut,      \* query_pinecone alone: the returned list
    qpDone      \* query_pinecone alone: "no", "returned" or "caught"

vars == <<env, remote, corpus, pc, crash, provLog, page, rendered, histCache,
          shown, query, embedding, asked, perIndex, all_results, results,
          context, answer, chatCalls, qpResp, qpKeywords, qpTopK, qpOut, qpDone>>

appVars == <<page, rendered, histCache, shown>>
flowVars == <<query, embedding, asked, perIndex, all_results, results, context,
              answer, chatCalls>>
qpVars == <<qpResp, qpKeywords, qpTopK, qpOut, qpDone>>

----------------------------------------------------------------------------
(* Bounds of the model *)

\* largest number of vectors an index holds
MaxCorpus == 11
\* questions are 0..MaxQuery; 0 is a blank one
MaxQuery == 3
\* ensure_index_exists calls of a provisioning run checked on its own
MaxProvCalls == 3
\* longest index answer given to query_pinecone on its own
MaxResp == 3
\* longest match list given to get_combined_context on its own
MaxMatches == 5

(* Program constants *)

\* top_k passed by fetch_relevant_documents
FetchTopK == 10
\* sorted_results[:5]
FinalTopN == 5
\* contexts[:3]
MaxContextBlocks == 3
\* default top_k of query_pinecone
DefaultTopK == 5

INDEX_NAMES == << "sporting-regulations-embeddings",
                  "technical-regulations-embeddings",
                  "financial-regulations-embeddings" >>

INDEX_HOSTS == { INDEX_NAMES[j] : j \in 1..Len(INDEX_NAMES) }

RequiredConfig == { "OPENAI_API_KEY", "PINECONE_API_KEY", "PINECONE_ENV" }

AwsConfig == { "AWS_ACCESS_KEY_ID", "AWS_SECRET_ACCESS_KEY", "AWS_REGION" }

AllConfig == RequiredConfig \cup AwsConfig

PAGES == << "informationpage", "paddockpal1", "tracks_drivers" >>

NoInfoMsg == "No relevant information found in the database."

ChatErrorMsg == "An error occurred while generating the answer."

----------------------------------------------------------------------------
(* Strings and lists *)

Min(a, b) == IF a < b THEN a ELSE b

\* Python's s[:n] for n >= 0
Take(s, n) == SubSeq(s, 1, Min(n, Len(s)))

InSeq(x, s) == \E j \in 1..Len(s) : s[j] = x

LowerChar(c) == IF c = "A" THEN "a" ELSE IF c = "B" THEN "b" ELSE c

\* str.lower()
Lower(s) == [j \in 1..Len(s) |-> LowerChar(s[j])]

\* Python's  sub in s
Contains(sub, s) ==
    \E k \in 0..(Len(s) - Len(sub)) : SubSeq(s, k + 1, k + Len(sub)) = sub

RECURSIVE Flatten(_)
Flatten(ss) == IF ss = <<>> THEN <<>> ELSE Head(ss) \o Flatten(Tail(ss))

\* match["metadata"].get("text", "")
GetText(m) == IF "text" \in DOMAIN m.metadata THEN m.metadata.text ELSE <<>>

\* x.get("score", 0)
ScoreKey(m) == IF "score" \in DOMAIN m THEN m.score ELSE 0

Match(id, score, text) == [id |-> id, score |-> score, metadata |-> [text |-> text]]

MatchNoText(id, score) == [id |-> id, score |-> score, metadata |-> [page |-> 0]]

----------------------------------------------------------------------------
(* paddockpal1.py: module initialization *)

\* if not OPENAI_API_KEY or not PINECONE_API_KEY or not PINECONE_ENVIRONMENT
CredentialsMissingNoEnvCheck(e) ==
    \/ "OPENAI_API_KEY" \notin e
    \/ "PINECONE_API_KEY" \notin e

CredentialsMissing(e) ==
    \/ "OPENAI_API_KEY" \notin e
    \/ "PINECONE_API_KEY" \notin e
    \/ "PINECONE_ENV" \notin e

\* index_name not in pinecone_client.list_indexes().names()
IndexAbsentAlways(index_name, names) == TRUE

IndexAbsent(index_name, names) == index_name \notin names

\* One ensure_index_exists call against a project listing `names`:
\* listOk / createOk say whether the list and the create request succeed.
EnsureOutcome(index_name, names, listOk, createOk) ==
    IF ~listOk THEN "list_error"
    ELSE IF IndexAbsent(index_name, names)
         THEN (IF createOk THEN "created" ELSE "create_error")
         ELSE "exists"

EnsureRecord(index_name, names, listOk, createOk) ==
    [name |-> index_name,
     present |-> index_name \in names,
     outcome |-> EnsureOutcome(index_name, names, listOk, createOk)]

IssuedCreate(rec) == rec.outcome \in {"created", "create_error"}

Raised(rec) == rec.outcome \in {"list_error", "create_error"}

----------------------------------------------------------------------------
(* The vector indexes *)

TextPool == << <<"a">>, <<"b">>, <<>>, <<"a", "B">> >>

\* similarity of the k-th nearest vector of index i to question q:
\* descending in k, with ties inside an index and across indexes
Score(q, i, k) == (q * (MaxCorpus + 1 - k)) \div 2 + i

DocAt(q, i, k) ==
    IF (i + k) % 6 = 0
    THEN MatchNoText(<<i, k>>, Score(q, i, k))
    ELSE Match(<<i, k>>, Score(q, i, k), TextPool[((i + k) % Len(TextPool)) + 1])

\* response.get("matches", []) of index.query(vector, top_k, include_metadata)
IndexAnswer(q, i, size, top_k) == [k \in 1..Min(top_k, size) |-> DocAt(q, i, k)]

----------------------------------------------------------------------------
(* paddockpal1.py: the retrieval functions *)

\* if not query_embedding
EmbeddingUnusableNever(e) == FALSE

EmbeddingUnusable(e) == e.none \/ e.vec = <<>>

\* any(keyword.lower() in match["metadata"].get("text", "").lower() ...)
IsKeywordMatch(m, keywords) ==
    \E j \in 1..Len(keywords) : Contains(Lower(keywords[j]), Lower(GetText(m)))

KeywordMatches(matches, keywords) ==
    SelectSeq(matches, LAMBDA m : IsKeywordMatch(m, keywords))

\* keyword_matches + [m for m in matches if m not in keyword_matches]
CombinedResultsNoPriority(matches, keyword_matches) == matches

CombinedResults(matches, keyword_matches) ==
    keyword_matches \o SelectSeq(matches, LAMBDA m : ~InSeq(m, keyword_matches))

\* the try block of query_pinecone once the index has answered
QueryPinecone(matches, keywords, top_k) ==
    Take(CombinedResults(matches, KeywordMatches(matches, keywords)), top_k)

\* top_k=10 in the call of fetch_relevant_documents
FetchTopKPlusOne == FetchTopK + 1

RequestedTopK == FetchTopK

\* sorted(..., key=score, reverse=True): a stable sort, so a match goes
\* behind every match whose score is at least its own
InsertPlaceUnstable(s, m) ==
    Cardinality({j \in 1..Len(s) : ScoreKey(s[j]) > ScoreKey(m)})

InsertPlace(s, m) ==
    Cardinality({j \in 1..Len(s) : ScoreKey(s[j]) >= ScoreKey(m)})

InsertByScore(s, m) ==
    LET n == InsertPlace(s, m)
    IN  SubSeq(s, 1, n) \o <<m>> \o SubSeq(s, n + 1, Len(s))

RECURSIVE SortedResults(_)
SortedResults(s) ==
    IF s = <<>> THEN <<>>
    ELSE InsertByScore(SortedResults(SubSeq(s, 1, Len(s) - 1)), s[Len(s)])

\* sorted_results[:5]
TopResultsAll(s) == s

TopResults(s) == Take(s, FinalTopN)

\* the loop of get_combined_context
RECURSIVE ContextLoop(_, _, _)
ContextLoop(matches, seen_texts, contexts) ==
    IF matches = <<>> THEN contexts
    ELSE LET text == GetText(Head(matches))
         IN  IF text # <<>> /\ text \notin seen_texts
             THEN ContextLoop(Tail(matches), seen_texts \cup {text},
                              Append(contexts, text))
             ELSE ContextLoop(Tail(matches), seen_texts, contexts)

\* "\n\n".join(blocks)
RECURSIVE Join(_)
Join(blocks) ==
    IF blocks = <<>> THEN <<>>
    ELSE IF Len(blocks) = 1 THEN blocks[1]
    ELSE blocks[1] \o <<"\n", "\n">> \o Join(Tail(blocks))

ContextBlocksNoDedup(matches) ==
    Take(SelectSeq([j \in 1..Len(matches) |-> GetText(matches[j])],
                   LAMBDA t : t # <<>>), MaxContextBlocks)

ContextBlocks(matches) == Take(ContextLoop(matches, {}, <<>>), MaxContextBlocks)

GetCombinedContext(matches) == Join(ContextBlocks(matches))

\* if not context: return the fixed string, else call the chat completion
NeedsCompletionAlways(ctx) == TRUE

NeedsCompletion(ctx) == ctx # <<>>

GenerateAnswer(ctx, chatOk) ==
    IF ~NeedsCompletion(ctx) THEN NoInfoMsg
    ELSE IF chatOk THEN "completion" ELSE ChatErrorMsg

----------------------------------------------------------------------------
(* The application: landing.py imports the page modules, then run() renders *)

NoEmbedding == [none |-> TRUE, vec |-> <<>>]

FlowIdle ==
    /\ query = 0
    /\ embedding = NoEmbedding
    /\ asked = <<>>
    /\ perIndex = <<>>
    /\ all_results = <<>>
    /\ results = <<>>
    /\ context = <<>>
    /\ answer = ""
    /\ chatCalls = 0

QpIdle ==
    /\ qpResp = <<>>
    /\ qpKeywords = <<>>
    /\ qpTopK = DefaultTopK
    /\ qpOut = <<>>
    /\ qpDone = "off"

AppIdle ==
    /\ page = "unset"
    /\ rendered = FALSE
    /\ histCache = "unset"
    /\ shown = "nothing"

Init ==
    /\ env \in SUBSET AllConfig
    /\ remote \in SUBSET INDEX_HOSTS
    /\ corpus \in { [j \in 1..Len(INDEX_NAMES) |-> c] : c \in 0..1 }
    /\ pc = "boot"
    /\ crash = "none"
    /\ provLog = <<>>
    /\ AppIdle
    /\ FlowIdle
    /\ QpIdle

\* paddockpal1.py lines 10-17, reached by the import in landing.py line 3
ValidateCredentials ==
    /\ pc = "boot"
    /\ IF CredentialsMissing(env)
       THEN pc' = "crashed" /\ crash' = "credentials"
       ELSE pc' = "provision" /\ crash' = crash
    /\ UNCHANGED <<env, remote, corpus, provLog, appVars, flowVars, qpVars>>

\* one iteration of  for index in INDEX_NAMES: ensure_index_exists(index)
EnsureIndexExistsAtImport ==
    /\ pc = "provision"
    /\ \E listOk \in BOOLEAN, createOk \in BOOLEAN :
         LET index_name == INDEX_NAMES[Len(provLog) + 1]
             rec == EnsureRecord(index_name, remote, listOk, createOk)
         IN  /\ provLog' = Append(provLog, rec)
             /\ remote' = IF rec.outcome = "created"
                          THEN remote \cup {index_name} ELSE remote
             /\ IF Raised(rec)
                THEN pc' = "crashed" /\ crash' = "provisioning"
                ELSE /\ crash' = crash
                     /\ pc' = IF Len(provLog') = Len(INDEX_NAMES)
                              THEN "ready" ELSE "provision"
    /\ UNCHANGED <<env, corpus, appVars, flowVars, qpVars>>

\* run(): the page shown after a click on sidebar button `click` ("none": no click)
Route(click) ==
    IF click # "none" THEN click
    ELSE IF page = "unset" THEN "informationpage" ELSE page

Clicks == {"none"} \cup { PAGES[j] : j \in 1..Len(PAGES) }

\* run() with informationpage selected: show_info and load_history_content
RenderInfo ==
    /\ pc = "ready"
    /\ \E click \in Clicks, s3Ok \in BOOLEAN :
         /\ Route(click) = "informationpage"
         /\ page' = Route(click)
         /\ histCache' = IF histCache = "unset"
                         THEN (IF s3Ok THEN "data" ELSE "none")
                         ELSE histCache
         /\ shown' = IF histCache' = "data" THEN "history" ELSE "history_warning"
    /\ rendered' = TRUE
    /\ UNCHANGED <<env, remote, corpus, pc, crash, provLog, flowVars, qpVars>>

\* run() with tracks_drivers selected (the page module is not part of the sources)
RenderTracks ==
    /\ pc = "ready"
    /\ \E click \in Clicks :
         /\ Route(click) = "tracks_drivers"
         /\ page' = Route(click)
    /\ shown' = "tracks"
    /\ rendered' = TRUE
    /\ UNCHANGED <<env, remote, corpus, pc, crash, provLog, histCache, flowVars, qpVars>>

\* run() with paddockpal1 selected and no usable question submitted
RenderChat ==
    /\ pc = "ready"
    /\ \E click \in Clicks, q \in 0..MaxQuery, submit \in BOOLEAN :
         /\ Route(click) = "paddockpal1"
         /\ submit => (click = "none" /\ q = 0)
         /\ page' = Route(click)
         /\ shown' = IF submit THEN "enter_valid_question" ELSE "question_form"
    /\ rendered' = TRUE
    /\ UNCHANGED <<env, remote, corpus, pc, crash, provLog, histCache, flowVars, qpVars>>

\* show_paddockpal: Submit pressed with a non-blank question
SubmitQuestion ==
    /\ pc = "ready"
    /\ page = "paddockpal1"
    /\ \E q \in 1..MaxQuery : query' = q
    /\ embedding' = NoEmbedding
    /\ asked' = <<>>
    /\ perIndex' = <<>>
    /\ all_results' = <<>>
    /\ results' = <<>>
    /\ context' = <<>>
    /\ answer' = ""
    /\ chatCalls' = 0
    /\ pc' = "embed"
    /\ shown' = "processing"
    /\ rendered' = TRUE
    /\ UNCHANGED <<env, remote, corpus, crash, provLog, page, histCache, qpVars>>

\* fetch_relevant_documents up to the embedding test (lines 115-119)
GenerateEmbedding ==
    /\ pc = "embed"
    /\ \E ok \in BOOLEAN :
         embedding' = IF ok THEN [none |-> FALSE, vec |-> <<1>>] ELSE NoEmbedding
    /\ IF EmbeddingUnusable(embedding')
       THEN pc' = "context"
       ELSE pc' = "query"
    /\ results' = <<>>
    /\ UNCHANGED <<env, remote, corpus, crash, provLog, appVars, query, asked,
                   perIndex, all_results, context, answer, chatCalls, qpVars>>

\* one iteration of the loop of fetch_relevant_documents; the last one also
\* sorts and returns (lines 122-129)
QueryIndex ==
    /\ pc = "query"
    /\ \E ok \in BOOLEAN :
         LET j == Len(asked) + 1
             top_k == RequestedTopK
             got == IF ok /\ INDEX_NAMES[j] \in INDEX_HOSTS
                    THEN QueryPinecone(IndexAnswer(query, j, corpus[j], top_k),
                                       <<>>, top_k)
                    ELSE <<>>
         IN  /\ asked' = Append(asked, top_k)
             /\ perIndex' = Append(perIndex, got)
             /\ all_results' = all_results \o got
             /\ IF j = Len(INDEX_NAMES)
                THEN /\ results' = TopResults(SortedResults(all_results'))
                     /\ pc' = "context"
                ELSE /\ results' = results
                     /\ pc' = pc
    /\ UNCHANGED <<env, remote, corpus, crash, provLog, appVars, query, embedding,
                   context, answer, chatCalls, qpVars>>

\* context = get_combined_context(matches)
BuildContext ==
    /\ pc = "context"
    /\ context' = GetCombinedContext(results)
    /\ pc' = "answer"
    /\ UNCHANGED <<env, remote, corpus, crash, provLog, appVars, query, embedding,
                   asked, perIndex, all_results, results, answer, chatCalls, qpVars>>

\* answer = generate_answer_with_openai(context, query); st.write(answer)
Answer ==
    /\ pc = "answer"
    /\ \E chatOk \in BOOLEAN : answer' = GenerateAnswer(context, chatOk)
    /\ chatCalls' = IF NeedsCompletion(context) THEN 1 ELSE 0
    /\ pc' = "ready"
    /\ shown' = "answer"
    /\ UNCHANGED <<env, remote, corpus, crash, provLog, page, rendered, histCache,
                   query, embedding, asked, perIndex, all_results, results,
                   context, qpVars>>

Next ==
    \/ ValidateCredentials
    \/ EnsureIndexExistsAtImport
    \/ RenderInfo
    \/ RenderTracks
    \/ RenderChat
    \/ SubmitQuestion
    \/ GenerateEmbedding
    \/ QueryIndex
    \/ BuildContext
    \/ Answer

Spec == Init /\ [][Next]_vars

----------------------------------------------------------------------------
(* The question page on its own: the process after a successful start, the *)
(* three indexes holding any of a few corpus sizes                         *)

CorpusSizes == {0, 2, 4, 6, MaxCorpus}

AllExistLog ==
    [j \in 1..Len(INDEX_NAMES) |->
        [name |-> INDEX_NAMES[j], present |-> TRUE, outcome |-> "exists"]]

InitFetch ==
    /\ env = AllConfig
    /\ remote = INDEX_HOSTS
    /\ corpus \in [1..Len(INDEX_NAMES) -> CorpusSizes]
    /\ pc = "ready"
    /\ crash = "none"
    /\ provLog = AllExistLog
    /\ page = "paddockpal1"
    /\ rendered = TRUE
    /\ histCache = "unset"
    /\ shown = "question_form"
    /\ FlowIdle
    /\ QpIdle

NextFetch ==
    \/ SubmitQuestion
    \/ GenerateEmbedding
    \/ QueryIndex
    \/ BuildContext
    \/ Answer

SpecFetch == InitFetch /\ [][NextFetch]_vars

----------------------------------------------------------------------------
(* ensure_index_exists on its own: a caller invoking it for any names *)

InitProv ==
    /\ env = AllConfig
    /\ remote \in SUBSET INDEX_HOSTS
    /\ corpus = [j \in 1..Len(INDEX_NAMES) |-> 0]
    /\ pc = "provisioning"
    /\ crash = "none"
    /\ provLog = <<>>
    /\ AppIdle
    /\ FlowIdle
    /\ QpIdle

EnsureIndexExists ==
    /\ pc = "provisioning"
    /\ Len(provLog) < MaxProvCalls
    /\ \E j \in 1..Len(INDEX_NAMES), listOk \in BOOLEAN, createOk \in BOOLEAN :
         LET rec == EnsureRecord(INDEX_NAMES[j], remote, listOk, createOk)
         IN  /\ provLog' = Append(provLog, rec)
             /\ remote' = IF rec.outcome = "created"
                          THEN remote \cup {INDEX_NAMES[j]} ELSE remote
    /\ UNCHANGED <<env, corpus, pc, crash, appVars, flowVars, qpVars>>

SpecProv == InitProv /\ [][EnsureIndexExists]_vars

----------------------------------------------------------------------------
(* query_pinecone on its own: any short index answer, any keyword list *)

QpTexts == { <<>>, <<"a">>, <<"B">>, <<"a", "b">>, <<"b", "A">> }

QpKeywordPool == { <<"a">>, <<"A", "B">>, <<"b">> }

\* stands for a metadata record without a "text" field
NoTextField == << "no text field" >>

\* the j-th match of an answer whose texts are ts
QpMatch(ts, j) ==
    IF ts[j] = NoTextField THEN MatchNoText(j, Len(ts) - j)
    ELSE Match(j, Len(ts) - j, ts[j])

QpTextChoices == { NoTextField } \cup QpTexts

InitQp ==
    /\ env = AllConfig
    /\ remote = INDEX_HOSTS
    /\ corpus = [j \in 1..Len(INDEX_NAMES) |-> 0]
    /\ pc = "query_pinecone"
    /\ crash = "none"
    /\ provLog = AllExistLog
    /\ AppIdle
    /\ FlowIdle
    /\ qpTopK \in (1..MaxResp) \cup {DefaultTopK, FetchTopK}
    /\ \E n \in 0..Min(MaxResp, qpTopK) :
         \E ts \in [1..n -> QpTextChoices] :
            qpResp = [j \in 1..n |-> QpMatch(ts, j)]
    /\ \E n \in 0..2 : qpKeywords \in [1..n -> QpKeywordPool]
    /\ qpOut = <<>>
    /\ qpDone = "no"

QueryPineconeCall ==
    /\ qpDone = "no"
    /\ \E ok \in BOOLEAN :
         IF ok
         THEN /\ qpOut' = QueryPinecone(qpResp, qpKeywords, qpTopK)
              /\ qpDone' = "returned"
         ELSE /\ qpOut' = <<>>
              /\ qpDone' = "caught"
    /\ UNCHANGED <<env, remote, corpus, pc, crash, provLog, appVars, flowVars,
                   qpResp, qpKeywords, qpTopK>>

SpecQp == InitQp /\ [][QueryPineconeCall]_vars

----------------------------------------------------------------------------
(* get_combined_context on its own: any short list of matches *)

CtxTexts == { <<>>, <<"a">>, <<"b">>, <<"A">>, <<"a", "B">> }

CtxTextChoices == { NoTextField } \cup CtxTexts

InitCtx ==
    /\ env = AllConfig
    /\ remote = INDEX_HOSTS
    /\ corpus = [j \in 1..Len(INDEX_NAMES) |-> 0]
    /\ pc = "context"
    /\ crash = "none"
    /\ provLog = AllExistLog
    /\ page = "paddockpal1"
    /\ rendered = TRUE
    /\ histCache = "unset"
    /\ shown = "processing"
    /\ query = 1
    /\ embedding = [none |-> FALSE, vec |-> <<1>>]
    /\ asked = <<>>
    /\ perIndex = <<>>
    /\ all_results = <<>>
    /\ \E n \in 0..MaxMatches :
         \E ts \in [1..n -> CtxTextChoices] :
            results = [j \in 1..n |-> QpMatch(ts, j)]
    /\ context = <<>>
    /\ answer = ""
    /\ chatCalls = 0
    /\ QpIdle

SpecCtx == InitCtx /\ [][BuildContext]_vars

----------------------------------------------------------------------------
(* Properties *)

\* fetch_relevant_documents has returned and its result is still at hand
FetchReturned == pc \in {"context", "answer"} \/ (pc = "ready" /\ shown = "answer")

\* C1: when the embedding call fails, fetch_relevant_documents returns the
\* empty list, raises nothing, and has queried no index.
C1_EmbeddingFailureYieldsEmpty ==
    (FetchReturned /\ embedding.none) =>
        /\ results = <<>>
        /\ asked = <<>>
        /\ perIndex = <<>>
        /\ crash = "none"

C1_Witness ==
    /\ pc = "context"
    /\ query # 0
    /\ embedding.none
    /\ \A j \in 1..Len(INDEX_NAMES) : corpus[j] > 0
    /\ results = <<>>

\* C2: the list fetch_relevant_documents returns never has more than 5
\* matches, whatever each of the three indexes answered.
C2_AtMostFiveResults == FetchReturned => Len(results) <= 5

C2_Witness ==
    /\ pc = "context"
    /\ Len(perIndex) = 3
    /\ \A j \in 1..3 : Len(perIndex[j]) >= 4
    /\ Len(results) = 5

\* number of candidates that go before candidate a of list s in a stable
\* descending sort: higher score, or equal score and inserted earlier
RankIn(s, a) ==
    Cardinality({b \in 1..Len(s) :
        \/ ScoreKey(s[b]) > ScoreKey(s[a])
        \/ (ScoreKey(s[b]) = ScoreKey(s[a]) /\ b < a)})

\* C3: with a usable embedding, the returned list is the 5 best-ranked
\* candidates (all when fewer) of the three indexes' results concatenated in
\* index order: descending score, equal scores in insertion order.
C3_TopFiveStableByScore ==
    (FetchReturned /\ ~embedding.none) =>
        /\ all_results = Flatten(perIndex)
        /\ Len(results) = Min(5, Len(all_results))
        /\ \A a \in 1..Len(all_results) :
              RankIn(all_results, a) < 5 =>
                  results[RankIn(all_results, a) + 1] = all_results[a]

C3_Witness ==
    /\ pc = "context"
    /\ ~embedding.none
    /\ Len(all_results) > 5
    /\ \E a \in 1..5 : \E b \in 1..5 :
          /\ a < b
          /\ ScoreKey(results[a]) = ScoreKey(results[b])
          /\ results[a].id[1] < results[b].id[1]
    /\ \E a \in 1..4 : ScoreKey(results[a]) > ScoreKey(results[a + 1])

\* the text blocks of a context: the pieces between blank lines
RECURSIVE SplitBlocks(_)
SplitBlocks(s) ==
    IF s = <<>> THEN <<>>
    ELSE LET cuts == {k \in 1..(Len(s) - 1) : s[k] = "\n" /\ s[k + 1] = "\n"}
         IN  IF cuts = {} THEN <<s>>
             ELSE LET k == CHOOSE c \in cuts : \A d \in cuts : c <= d
                  IN  <<SubSeq(s, 1, k - 1)>> \o SplitBlocks(SubSeq(s, k + 2, Len(s)))

\* positions of the matches that carry a non-empty text for the first time
FirstOccurrences(ms) ==
    {j \in 1..Len(ms) :
        /\ GetText(ms[j]) # <<>>
        /\ \A h \in 1..(j - 1) : GetText(ms[h]) # GetText(ms[j])}

EarlierFirsts(ms, j) == Cardinality({h \in FirstOccurrences(ms) : h < j})

\* C4: the context holds no text block twice and at most 3 blocks: the first
\* 3 distinct non-empty metadata texts in match order, joined by blank lines.
C4_ContextDistinctAtMostThree ==
    pc = "answer" =>
        LET blocks == SplitBlocks(context)
            kept == {j \in FirstOccurrences(results) : EarlierFirsts(results, j) < 3}
        IN  /\ Len(blocks) <= 3
            /\ \A a \in 1..Len(blocks) : \A b \in 1..Len(blocks) :
                  a # b => blocks[a] # blocks[b]
            /\ Len(blocks) = Cardinality(kept)
            /\ \A j \in kept : blocks[EarlierFirsts(results, j) + 1] = GetText(results[j])

C4_Witness ==
    /\ pc = "answer"
    /\ Len(SplitBlocks(context)) = 3
    /\ Cardinality(FirstOccurrences(results)) = 4
    /\ GetText(results[1]) = GetText(results[2])
    /\ GetText(results[1]) # <<>>

\* C5: with an empty context generate_answer_with_openai returns the fixed
\* "no relevant information" string and makes no chat-completion call.
C5_EmptyContextNoCompletion ==
    (pc = "ready" /\ shown = "answer" /\ context = <<>>) =>
        /\ answer = "No relevant information found in the database."
        /\ chatCalls = 0

C5_Witness ==
    /\ pc = "ready"
    /\ shown = "answer"
    /\ ~embedding.none
    /\ context = <<>>
    /\ answer = NoInfoMsg


\* two successive ensure_index_exists calls for one name that both returned
SuccessivePair(j) ==
    /\ j \in 1..(Len(provLog) - 1)
    /\ provLog[j].name = provLog[j + 1].name
    /\ ~Raised(provLog[j])
    /\ ~Raised(provLog[j + 1])

CreatesOfPair(j) == Cardinality({h \in {j, j + 1} : IssuedCreate(provLog[h])})

ExistsOfPair(j) == Cardinality({h \in {j, j + 1} : provLog[h].outcome = "exists"})

\* C6 as stated: any two successive calls for the same index name make
\* exactly one create call and one "already exists" observation, and a call
\* for an index that is present makes no create call.
C6_AlwaysOneCreateOneExists ==
    /\ \A j \in 1..(Len(provLog) - 1) :
          SuccessivePair(j) => (CreatesOfPair(j) = 1 /\ ExistsOfPair(j) = 1)
    /\ \A j \in 1..Len(provLog) : provLog[j].present => ~IssuedCreate(provLog[j])

\* C6 amended: two successive calls for the same name make one create call
\* and one "already exists" observation when the index was absent before the
\* first call, and no create call and two "already exists" observations when
\* it was present; a call makes a create call exactly when its existence
\* check answered and the index was absent.
C6_IdempotentProvisioning ==
    /\ \A j \in 1..(Len(provLog) - 1) :
          SuccessivePair(j) =>
              IF provLog[j].present
              THEN CreatesOfPair(j) = 0 /\ ExistsOfPair(j) = 2
              ELSE /\ CreatesOfPair(j) = 1 /\ ExistsOfPair(j) = 1
                   /\ provLog[j].outcome = "created"
                   /\ provLog[j + 1].outcome = "exists"
    /\ \A j \in 1..Len(provLog) :
          /\ provLog[j].present => ~IssuedCreate(provLog[j])
          /\ IssuedCreate(provLog[j]) <=>
                (provLog[j].outcome # "list_error" /\ ~provLog[j].present)

C6_Witness ==
    /\ Len(provLog) >= 2
    /\ SuccessivePair(1)
    /\ ~provLog[1].present
    /\ provLog[1].outcome = "created"
    /\ provLog[2].outcome = "exists"

\* does text t contain keyword w, letter case ignored
HoldsKeyword(t, w) ==
    \E k \in 0..(Len(t) - Len(w)) :
        \A c \in 1..Len(w) : LowerChar(t[k + c]) = LowerChar(w[c])

HasKeyword(m) == \E j \in 1..Len(qpKeywords) : HoldsKeyword(GetText(m), qpKeywords[j])

\* C7: for a non-empty keyword list, in the list query_pinecone returns every
\* match whose text contains a keyword comes before every match that
\* contains none, and each of the two groups keeps the index's order.
C7_KeywordMatchesFirst ==
    (qpDone = "returned" /\ qpKeywords # <<>>) =>
        /\ \A a \in 1..Len(qpOut) : qpOut[a] = qpResp[qpOut[a].id]
        /\ \A a \in 1..Len(qpOut) : \A b \in 1..Len(qpOut) :
              a < b =>
                  /\ ~(~HasKeyword(qpOut[a]) /\ HasKeyword(qpOut[b]))
                  /\ (HasKeyword(qpOut[a]) <=> HasKeyword(qpOut[b]))
                        => qpOut[a].id < qpOut[b].id

C7_Witness ==
    /\ qpDone = "returned"
    /\ qpKeywords # <<>>
    /\ Len(qpResp) = 3
    /\ ~HasKeyword(qpResp[1])
    /\ HasKeyword(qpResp[2])
    /\ GetText(qpResp[2]) \notin {qpKeywords[j] : j \in 1..Len(qpKeywords)}
    /\ ~HasKeyword(qpResp[3])
    /\ qpOut = <<qpResp[2], qpResp[1], qpResp[3]>>

\* C8 as stated: every index is asked for its top 10 and its merged list is
\* cut to 5 matches before it joins the other indexes' results.
C8_PerIndexCutToFive ==
    \A j \in 1..Len(perIndex) : asked[j] = 10 /\ Len(perIndex[j]) <= 5

\* C8 amended: every index is asked for its top 10 and its merged list is cut
\* to that same top_k of 10, so one index contributes up to 10 candidates to
\* the final sort; only the sorted whole is cut to 5.
C8_PerIndexCutToTen ==
    /\ Len(asked) = Len(perIndex)
    /\ \A j \in 1..Len(perIndex) :
          /\ asked[j] = 10
          /\ Len(perIndex[j]) <= 10
          /\ Len(perIndex[j]) \in {0, Min(10, corpus[j])}
    /\ all_results = Flatten(perIndex)

C8_Witness ==
    /\ pc = "context"
    /\ Len(perIndex) = 3
    /\ corpus[1] > 10
    /\ Len(perIndex[1]) = 10
    /\ Len(all_results) > 10
    /\ Len(results) = 5

\* C9: no failure of an external call ends the process; the one exception
\* that escapes is the one raised for missing startup credentials.
C9_OnlyCredentialsEscape == crash \in {"none", "credentials"}

\* C10 as stated: with any of the six configuration values missing, startup
\* raises before index provisioning and before any page is rendered.
C10_AnyMissingConfigFailsFast ==
    (AllConfig \ env # {}) =>
        /\ provLog = <<>>
        /\ ~rendered
        /\ pc # "boot" => (pc = "crashed" /\ crash = "credentials")

\* C10 amended: startup raises before index provisioning and before any page
\* is rendered when one of the two API keys or the environment string is
\* missing; the three object-store values are not checked at startup.
C10_MissingApiConfigFailsFast ==
    /\ ({"OPENAI_API_KEY", "PINECONE_API_KEY", "PINECONE_ENV"} \ env # {}) =>
          /\ provLog = <<>>
          /\ ~rendered
          /\ pc # "boot" => (pc = "crashed" /\ crash = "credentials")
    /\ crash = "credentials" =>
          {"OPENAI_API_KEY", "PINECONE_API_KEY", "PINECONE_ENV"} \ env # {}

C10_Witness ==
    /\ pc = "crashed"
    /\ crash = "credentials"
    /\ AwsConfig \subseteq env
    /\ env \cap RequiredConfig = {"OPENAI_API_KEY", "PINECONE_API_KEY"}

====
